---- MODULE Spec2Model ----
(***************************************************************************)
(* Model of src/src/utils.py: vintage pivot construction, empirical        *)
(* transition counting, row normalisation, Laplace smoothing, shrinkage    *)
(* toward the pooled matrix and the final probability-matrix pass.         *)
(*                                                                         *)
(* Numbers are exact rationals <<n, d>> in lowest terms with d > 0 (the    *)
(* code uses IEEE doubles; rounding is not represented).  A DataFrame of   *)
(* records is [columns, rows]; a labelled matrix is [index, columns, cell] *)
(* with cell a function on index \X columns.  Label order is not kept.     *)
(***************************************************************************)
EXTENDS Integers, Sequences, FiniteSets, TLC

(***************************************************************************)
(* Bounds of the enumerated inputs.                                        *)
(***************************************************************************)
MaxRows == 3
NumLoans == 2
MaxAge == 2
MaxCount == 2
MaxPoolCount == 1

Loans == 1..NumLoans
Ages == 0..MaxAge
States == {"A", "B"}

(***************************************************************************)
(* Exact rational arithmetic standing for the float64 cells.               *)
(***************************************************************************)
Abs(x) == IF x < 0 THEN -x ELSE x

RECURSIVE GCD(_, _)
GCD(a, b) == IF b = 0 THEN a ELSE GCD(b, a % b)

Rat(n, d) ==
    LET g == GCD(Abs(n), Abs(d))
        s == IF d < 0 THEN -1 ELSE 1
    IN  <<(s * n) \div g, (s * d) \div g>>

Zero == <<0, 1>>
One == <<1, 1>>
Half == <<1, 2>>

RAdd(p, q) == Rat(p[1] * q[2] + q[1] * p[2], p[2] * q[2])
RSub(p, q) == Rat(p[1] * q[2] - q[1] * p[2], p[2] * q[2])
RMul(p, q) == Rat(p[1] * q[1], p[2] * q[2])
RDiv(p, q) == Rat(p[1] * q[2], p[2] * q[1])
RLess(p, q) == p[1] * q[2] < q[1] * p[2]

RECURSIVE RSum(_, _)
RSum(f, S) ==
    IF S = {} THEN Zero
    ELSE LET x == CHOOSE y \in S : TRUE
         IN  RAdd(f[x], RSum(f, S \ {x}))

(***************************************************************************)
(* Labelled matrices (pandas DataFrame of numbers).                        *)
(***************************************************************************)
EmptyMatrix == [index |-> {}, columns |-> {}, cell |-> <<>>]

\* df.sum(axis=1)[r]
RowSum(m, r) == RSum([c \in m.columns |-> m.cell[<<r, c>>]], m.columns)

\* df.sum().sum()
TotalSum(m) == RSum(m.cell, m.index \X m.columns)

\* tbl.reindex(index=labels, columns=labels, fill_value=0)
Reindex(m, idx, cols) ==
    [index |-> idx,
     columns |-> cols,
     cell |-> [rc \in (idx) \X (cols) |->
         LET r == rc[1]
             c == rc[2]
         IN  IF r \in m.index /\ c \in m.columns
             THEN m.cell[<<r, c>>] ELSE Zero]]

\* variant: a zero-sum row is imputed as the uniform distribution
row_normalize_uniform(df) ==
    LET row_sums == [r \in df.index |-> RowSum(df, r)]
        nonzero == {r \in df.index : row_sums[r] # Zero}
    IN  [index |-> df.index,
         columns |-> df.columns,
         cell |-> [rc \in (df.index) \X (df.columns) |->
             LET r == rc[1]
                 c == rc[2]
             IN  IF r \in nonzero
                 THEN RDiv(df.cell[<<r, c>>], row_sums[r])
                 ELSE Rat(1, Cardinality(df.columns))]]

row_normalize(df) ==
    LET row_sums == [r \in df.index |-> RowSum(df, r)]
        nonzero == {r \in df.index : row_sums[r] # Zero}
    IN  [index |-> df.index,
         columns |-> df.columns,
         cell |-> [rc \in (df.index) \X (df.columns) |->
             LET r == rc[1]
                 c == rc[2]
             IN  IF r \in nonzero
                 THEN RDiv(df.cell[<<r, c>>], row_sums[r])
                 ELSE Zero]]

\* variant: alpha is added to the empty cells only
laplace_empty_cells_only(counts, alpha) ==
    LET counts_s == [index |-> counts.index,
                     columns |-> counts.columns,
                     cell |-> [rc \in (counts.index) \X (counts.columns) |->
                         LET r == rc[1]
                             c == rc[2]
                         IN  IF counts.cell[<<r, c>>] = Zero
                             THEN alpha ELSE counts.cell[<<r, c>>]]]
    IN  row_normalize(counts_s)

laplace_smoothing(counts, alpha) ==
    LET counts_s == [index |-> counts.index,
                     columns |-> counts.columns,
                     cell |-> [rc \in (counts.index) \X (counts.columns) |->
                         LET r == rc[1]
                             c == rc[2]
                         IN  RAdd(counts.cell[<<r, c>>], alpha)]]
    IN  row_normalize(counts_s)

\* df.clip(lower=0)
Clip(df) ==
    [index |-> df.index,
     columns |-> df.columns,
     cell |-> [rc \in (df.index) \X (df.columns) |->
         LET r == rc[1]
             c == rc[2]
         IN  IF RLess(df.cell[<<r, c>>], Zero)
             THEN Zero ELSE df.cell[<<r, c>>]]]

\* variant: the clip is left out
ensure_without_clip(df) == row_normalize(df)

ensure_probability_matrix(df) == row_normalize(Clip(df))

\* variant: the two weights are exchanged
BlendSwapped(probs, pooled_probs, pool_weight) ==
    [index |-> probs.index,
     columns |-> probs.columns,
     cell |-> [rc \in (probs.index) \X (probs.columns) |->
         LET r == rc[1]
             c == rc[2]
         IN  RAdd(RMul(pool_weight, probs.cell[<<r, c>>]),
             RMul(RSub(One, pool_weight), pooled_probs.cell[<<r, c>>]))]]

\* (1 - pool_weight) * probs + pool_weight * pooled_probs, elementwise
Blend(probs, pooled_probs, pool_weight) ==
    [index |-> probs.index,
     columns |-> probs.columns,
     cell |-> [rc \in (probs.index) \X (probs.columns) |->
         LET r == rc[1]
             c == rc[2]
         IN  RAdd(RMul(RSub(One, pool_weight), probs.cell[<<r, c>>]),
             RMul(pool_weight, pooled_probs.cell[<<r, c>>]))]]

\* all_states: every index label and every column label of every table
AllStates(age_tables) ==
    UNION {age_tables[a].index \cup age_tables[a].columns : a \in DOMAIN age_tables}

\* pooled: the zero matrix on all_states, plus every reindexed table
RECURSIVE PooledOver(_, _, _)
PooledOver(age_tables, ages, all_states) ==
    IF ages = {} THEN [index |-> all_states,
                       columns |-> all_states,
                       cell |-> [rc \in (all_states) \X (all_states) |->
                           LET r == rc[1]
                               c == rc[2]
                           IN  Zero]]
    ELSE LET a == CHOOSE x \in ages : TRUE
             rest == PooledOver(age_tables, ages \ {a}, all_states)
             tbl2 == Reindex(age_tables[a], all_states, all_states)
         IN  [index |-> all_states,
              columns |-> all_states,
              cell |-> [rc \in (all_states) \X (all_states) |->
                  LET r == rc[1]
                      c == rc[2]
                  IN  RAdd(rest.cell[<<r, c>>], tbl2.cell[<<r, c>>])]]

\* variant: only the first age's table is pooled
PooledFirstAgeOnly(age_tables) ==
    LET ages == DOMAIN age_tables
        first == {a \in ages : \A b \in ages : a <= b}
    IN  PooledOver(age_tables, first, AllStates(age_tables))

Pooled(age_tables) ==
    PooledOver(age_tables, DOMAIN age_tables, AllStates(age_tables))

\* variant: a row without observations at an age takes the pooled row as its
\* per-age estimate before blending
shrink_with_pooled_fallback(age_tables, pool_weight) ==
    LET all_states == AllStates(age_tables)
        pooled_probs == row_normalize(Pooled(age_tables))
    IN  [age \in DOMAIN age_tables |->
            LET tbl2 == Reindex(age_tables[age], all_states, all_states)
                probs == row_normalize(tbl2)
                filled == [index |-> all_states,
                           columns |-> all_states,
                           cell |-> [rc \in (all_states) \X (all_states) |->
                               LET r == rc[1]
                                   c == rc[2]
                               IN  IF RowSum(tbl2, r) = Zero
                                   THEN pooled_probs.cell[<<r, c>>]
                                   ELSE probs.cell[<<r, c>>]]]
            IN  Blend(filled, pooled_probs, pool_weight)]

shrink_toward_pool(age_tables, pool_weight) ==
    LET all_states == AllStates(age_tables)
        pooled_probs == row_normalize(Pooled(age_tables))
    IN  [age \in DOMAIN age_tables |->
            LET tbl2 == Reindex(age_tables[age], all_states, all_states)
                probs == row_normalize(tbl2)
            IN  Blend(probs, pooled_probs, pool_weight)]

(***************************************************************************)
(* Record tables (pandas DataFrame of loan observations).                  *)
(***************************************************************************)
ID_COL == "loan_id"
ORIG_COL == "origination_date"
OBS_COL == "observation_date"
STATE_COL == "delinquency_bucket"
VALUE_COL == "balance"
AGE_MONTHS == "age_months"

\* a call either returns a value or raises
Return(v) == [raised |-> "none", value |-> v]
Raise(e) == [raised |-> e, value |-> <<>>]

\* Series.dt.to_period('M'): the day of the month is dropped
ToPeriodM(date) == date.month

\* df[col] = values (adds the column, or overwrites it)
WithColumn(table, col, values) ==
    [columns |-> table.columns \cup {col},
     rows |-> [i \in 1..Len(table.rows) |->
                 [c \in table.columns \cup {col} |->
                     IF c = col THEN values[i] ELSE table.rows[i][c]]]]

compute_age_months(df, orig_col, obs_col) ==
    IF ~ ({orig_col, obs_col} \subseteq df.columns) THEN Raise("KeyError")
    ELSE Return(WithColumn(df, AGE_MONTHS,
                    [i \in 1..Len(df.rows) |->
                        ToPeriodM(df.rows[i][obs_col]) - ToPeriodM(df.rows[i][orig_col])]))

RECURSIVE SumOver(_, _)
SumOver(f, S) ==
    IF S = {} THEN 0
    ELSE LET x == CHOOSE y \in S : TRUE IN f[x] + SumOver(f, S \ {x})

\* variant: the last record of a group replaces the group's sum
GroupLast(df, keys, value_col) ==
    LET n == Len(df.rows)
        KeyOf(i) == [k \in 1..Len(keys) |-> df.rows[i][keys[k]]]
        present == {KeyOf(i) : i \in 1..n}
    IN  [key \in present |->
            LET members == {i \in 1..n : KeyOf(i) = key}
                last == CHOOSE i \in members : \A j \in members : j <= i
            IN  df.rows[last][value_col]]

\* df.groupby(keys)[value_col].sum(): one entry per key present in the data
GroupSum(df, keys, value_col) ==
    LET n == Len(df.rows)
        KeyOf(i) == [k \in 1..Len(keys) |-> df.rows[i][keys[k]]]
        present == {KeyOf(i) : i \in 1..n}
    IN  [key \in present |->
            SumOver([i \in 1..n |-> df.rows[i][value_col]],
                    {i \in 1..n : KeyOf(i) = key})]

\* grouped.pivot_table(index=[vintage, age], columns=state, fill_value=0):
\* each (vintage, age, state) holds one grouped row, whose mean is its value
PivotTable(grouped) ==
    [index |-> {<<k[1], k[2]>> : k \in DOMAIN grouped},
     columns |-> {k[3] : k \in DOMAIN grouped},
     cell |-> [rc \in ({<<k[1], k[2]>> : k \in DOMAIN grouped}) \X ({k[3] : k \in DOMAIN grouped}) |->
         LET r == rc[1]
             c == rc[2]
         IN  IF <<r[1], r[2], c>> \in DOMAIN grouped
             THEN Rat(grouped[<<r[1], r[2], c>>], 1) ELSE Zero]]

build_vintage_pivot(df, vintage_col, age_col) ==
    LET derived == IF age_col \notin df.columns
                   THEN compute_age_months(df, vintage_col, OBS_COL)
                   ELSE Return(df)
    IN  IF derived.raised # "none" THEN derived
        ELSE IF ~ ({vintage_col, age_col, STATE_COL, VALUE_COL}
                     \subseteq derived.value.columns)
             THEN Raise("KeyError")
        ELSE Return(PivotTable(GroupSum(derived.value,
                        <<vintage_col, age_col, STATE_COL>>, VALUE_COL)))

\* lexicographic order on (id, age) used by sort_values
KeyLeq(r1, r2, id_col, age_col) ==
    \/ r1[id_col] < r2[id_col]
    \/ r1[id_col] = r2[id_col] /\ r1[age_col] <= r2[age_col]

RECURSIVE InsertSorted(_, _, _, _)
InsertSorted(row, sorted, id_col, age_col) ==
    IF sorted = <<>> THEN <<row>>
    ELSE IF KeyLeq(sorted[1], row, id_col, age_col)
         THEN <<sorted[1]>> \o InsertSorted(row, Tail(sorted), id_col, age_col)
         ELSE <<row>> \o sorted

\* DataFrame.sort_values([id_col, age_col]) (stable)
RECURSIVE SortValues(_, _, _)
SortValues(rows, id_col, age_col) ==
    IF rows = <<>> THEN <<>>
    ELSE InsertSorted(rows[Len(rows)],
                      SortValues(SubSeq(rows, 1, Len(rows) - 1), id_col, age_col),
                      id_col, age_col)

\* df_next: each record re-keyed to age + 1, its state renamed to_state
DfNext(df2, id_col, age_col) ==
    [i \in 1..Len(df2) |->
        [id |-> df2[i][id_col], age |-> df2[i][age_col] + 1,
         to_state |-> df2[i][STATE_COL]]]

\* df_curr: the records keyed by (id, age)
DfCurr(df2, id_col, age_col) ==
    [i \in 1..Len(df2) |->
        [id |-> df2[i][id_col], age |-> df2[i][age_col],
         state |-> df2[i][STATE_COL]]]

\* variant: the join is on the age alone, not on (id, age)
JoinedOnAgeOnly(df_curr, df_next) ==
    {[id |-> df_curr[p[1]].id, age |-> df_curr[p[1]].age,
      state |-> df_curr[p[1]].state, to_state |-> df_next[p[2]].to_state,
      left |-> p[1], right |-> p[2]] :
        p \in {q \in (1..Len(df_curr)) \X (1..Len(df_next)) :
                  df_curr[q[1]].age = df_next[q[2]].age}}

\* df_curr.join(df_next, how='inner'): one row per matching pair of index keys
Joined(df_curr, df_next) ==
    {[id |-> df_curr[p[1]].id, age |-> df_curr[p[1]].age,
      state |-> df_curr[p[1]].state, to_state |-> df_next[p[2]].to_state,
      left |-> p[1], right |-> p[2]] :
        p \in {q \in (1..Len(df_curr)) \X (1..Len(df_next)) :
                  /\ df_curr[q[1]].id = df_next[q[2]].id
                  /\ df_curr[q[1]].age = df_next[q[2]].age}}

\* pd.crosstab(grp[state_col], grp['to_state'])
Crosstab(grp) ==
    [index |-> {j.state : j \in grp},
     columns |-> {j.to_state : j \in grp},
     cell |-> [rc \in ({j.state : j \in grp}) \X ({j.to_state : j \in grp}) |->
         LET r == rc[1]
             c == rc[2]
         IN  Rat(Cardinality({j \in grp : j.state = r /\ j.to_state = c}), 1)]]

compute_empirical_transitions(df, age_col) ==
    LET derived == IF age_col \notin df.columns
                   THEN compute_age_months(df, ORIG_COL, OBS_COL)
                   ELSE Return(df)
    IN  IF derived.raised # "none" THEN derived
        ELSE IF ~ ({ID_COL, age_col, STATE_COL} \subseteq derived.value.columns)
             THEN Raise("KeyError")
        ELSE LET df2 == SortValues(derived.value.rows, ID_COL, age_col)
                 joined == Joined(DfCurr(df2, ID_COL, age_col),
                                  DfNext(df2, ID_COL, age_col))
             IN  Return([age \in {j.age : j \in joined} |->
                            Crosstab({j \in joined : j.age = age})])

(***************************************************************************)
(* Enumerated inputs.                                                      *)
(***************************************************************************)
\* a loan's origination date, and its observation date at a given age
OrigDate(l) == [month |-> l % 2, day |-> 15]
ObsDate(l, a) == [month |-> (l % 2) + a, day |-> 1]

BaseColumns == {ID_COL, ORIG_COL, OBS_COL, STATE_COL, VALUE_COL}
AgeColumnNames == {AGE_MONTHS, "age"}

\* one observation of loan l at age a in state s; agecols names the
\* precomputed age column, if the table has one
Record(l, a, s, agecols) ==
    [c \in BaseColumns \cup agecols |->
        CASE c = ID_COL -> l
          [] c = ORIG_COL -> OrigDate(l)
          [] c = OBS_COL -> ObsDate(l, a)
          [] c = STATE_COL -> s
          [] c = VALUE_COL -> l + a
          [] OTHER -> a]

\* an extract lists the observations <<loan, age, state>> in chronological
\* order: by observation month, then loan (so it is in general not sorted by
\* loan and age)
Chronological(o1, o2) ==
    \/ ObsDate(o1[1], o1[2]).month < ObsDate(o2[1], o2[2]).month
    \/ /\ ObsDate(o1[1], o1[2]).month = ObsDate(o2[1], o2[2]).month
       /\ o1[1] <= o2[1]

\* the chronological lists of exactly n observations
RECURSIVE Extracts(_)
Extracts(n) ==
    IF n = 1 THEN {<<o>> : o \in Loans \X Ages \X States}
    ELSE {Append(e[1], e[2]) :
             e \in {x \in Extracts(n - 1) \X (Loans \X Ages \X States) :
                       Chronological(x[1][n - 1], x[2])}}

\* tables of 1..MaxRows records, without an age column or with age_months
Tables ==
    {[columns |-> BaseColumns \cup t[2],
      rows |-> [i \in 1..Len(t[1]) |->
                  Record(t[1][i][1], t[1][i][2], t[1][i][3], t[2])]] :
        t \in (UNION {Extracts(n) : n \in 1..MaxRows}) \X {{}, {AGE_MONTHS}}}

MatricesOver(values) ==
    UNION {{[index |-> idx, columns |-> cols, cell |-> f] :
              f \in [idx \X cols -> values]} :
           idx \in SUBSET States, cols \in SUBSET States}

\* the count matrix of the documented smoothing example
ExampleCounts ==
    [index |-> {"A", "B"},
     columns |-> {"A", "B"},
     cell |-> [rc \in ({"A", "B"}) \X ({"A", "B"}) |->
         LET r == rc[1]
             c == rc[2]
         IN  IF r = "A" THEN (IF c = "A" THEN Rat(8, 1) ELSE Rat(2, 1))
             ELSE (IF c = "A" THEN Rat(1, 1) ELSE Rat(9, 1))]]

InputMatrices ==
    MatricesOver({Rat(n, 1) : n \in (-1)..MaxCount}) \cup {ExampleCounts}

InputAgeTables ==
    LET ms == MatricesOver({Rat(n, 1) : n \in 0..MaxPoolCount})
    IN  UNION {[ages -> ms] : ages \in {{0}, {0, 1}}}

Alphas == {Zero, Half, One, Rat(2, 1)}
PoolWeights == {Zero, Rat(1, 4), One}

EmptyTable == [columns |-> {}, rows |-> <<>>]
EmptyDict == <<>>

(***************************************************************************)
(* State: the last call of one batch run, its arguments and its result.    *)
(***************************************************************************)
VARIABLES
    fn,          \* function whose call produced this state; "input" before
    df,          \* record table argument
    age_col,     \* age_col argument
    tbl,         \* matrix argument
    age_tables,  \* dict argument {age: count matrix}
    scalar,      \* alpha or pool_weight argument
    ret_df,      \* returned matrix
    ret_dict,    \* returned dict {age: matrix}
    raised       \* exception raised by the call, or "none"

vars == <<fn, df, age_col, tbl, age_tables, scalar, ret_df, ret_dict, raised>>

Init ==
    /\ fn = "input"
    /\ age_col = "" /\ scalar = Zero
    /\ ret_df = EmptyMatrix /\ ret_dict = EmptyDict /\ raised = "none"
    /\ \/ df \in Tables /\ tbl = EmptyMatrix /\ age_tables = EmptyDict
       \/ df = EmptyTable /\ tbl \in InputMatrices /\ age_tables = EmptyDict
       \/ df = EmptyTable /\ tbl = EmptyMatrix /\ age_tables \in InputAgeTables

\* the matrices the caller holds and may pass on
CountsAtHand ==
    CASE fn = "input" /\ df = EmptyTable /\ age_tables = EmptyDict -> {tbl}
      [] fn = "compute_empirical_transitions" /\ raised = "none" ->
            {ret_dict[a] : a \in DOMAIN ret_dict}
      [] OTHER -> {}

AgeTablesAtHand ==
    CASE fn = "input" /\ df = EmptyTable /\ age_tables # EmptyDict -> {age_tables}
      [] fn = "compute_empirical_transitions" /\ raised = "none" -> {ret_dict}
      [] OTHER -> {}

ProbsAtHand ==
    CASE fn = "input" /\ df = EmptyTable /\ age_tables = EmptyDict -> {tbl}
      [] fn = "shrink_toward_pool" -> {ret_dict[a] : a \in DOMAIN ret_dict}
      [] OTHER -> {}

CallBuildVintagePivot ==
    /\ fn = "input" /\ df # EmptyTable
    /\ \E ac \in AgeColumnNames :
         LET r == build_vintage_pivot(df, ORIG_COL, ac)
         IN  /\ fn' = "build_vintage_pivot"
             /\ age_col' = ac
             /\ raised' = r.raised
             /\ ret_df' = IF r.raised = "none" THEN r.value ELSE EmptyMatrix
    /\ UNCHANGED <<df, tbl, age_tables, scalar, ret_dict>>

CallComputeEmpiricalTransitions ==
    /\ fn = "input" /\ df # EmptyTable
    /\ \E ac \in AgeColumnNames :
         LET r == compute_empirical_transitions(df, ac)
         IN  /\ fn' = "compute_empirical_transitions"
             /\ age_col' = ac
             /\ raised' = r.raised
             /\ ret_dict' = IF r.raised = "none" THEN r.value ELSE EmptyDict
    /\ UNCHANGED <<df, tbl, age_tables, scalar, ret_df>>

CallRowNormalize ==
    /\ \E m \in CountsAtHand :
         /\ tbl' = m
         /\ ret_df' = row_normalize(m)
    /\ fn' = "row_normalize"
    /\ df' = EmptyTable /\ age_col' = "" /\ age_tables' = EmptyDict
    /\ scalar' = Zero /\ ret_dict' = EmptyDict /\ raised' = "none"

CallLaplaceSmoothing ==
    /\ \E m \in CountsAtHand, alpha \in Alphas :
         /\ tbl' = m
         /\ scalar' = alpha
         /\ ret_df' = laplace_smoothing(m, alpha)
    /\ fn' = "laplace_smoothing"
    /\ df' = EmptyTable /\ age_col' = "" /\ age_tables' = EmptyDict
    /\ ret_dict' = EmptyDict /\ raised' = "none"

CallShrinkTowardPool ==
    /\ \E t \in AgeTablesAtHand, pool_weight \in PoolWeights :
         /\ age_tables' = t
         /\ scalar' = pool_weight
         /\ ret_dict' = shrink_toward_pool(t, pool_weight)
    /\ fn' = "shrink_toward_pool"
    /\ df' = EmptyTable /\ age_col' = "" /\ tbl' = EmptyMatrix
    /\ ret_df' = EmptyMatrix /\ raised' = "none"

CallEnsureProbabilityMatrix ==
    /\ \E m \in ProbsAtHand :
         /\ tbl' = m
         /\ ret_df' = ensure_probability_matrix(m)
    /\ fn' = "ensure_probability_matrix"
    /\ df' = EmptyTable /\ age_col' = "" /\ age_tables' = EmptyDict
    /\ scalar' = Zero /\ ret_dict' = EmptyDict /\ raised' = "none"

Next ==
    \/ CallBuildVintagePivot
    \/ CallComputeEmpiricalTransitions
    \/ CallRowNormalize
    \/ CallLaplaceSmoothing
    \/ CallShrinkTowardPool
    \/ CallEnsureProbabilityMatrix

Spec == Init /\ [][Next]_vars

(***************************************************************************)
(* Vocabulary of the properties.                                           *)
(***************************************************************************)
NonNegative(m) == \A p \in DOMAIN m.cell : ~ RLess(m.cell[p], Zero)

CellOrZero(m, r, c) ==
    IF r \in m.index /\ c \in m.columns THEN m.cell[<<r, c>>] ELSE Zero

RowIsZero(m, r) == \A c \in m.columns : m.cell[<<r, c>>] = Zero

\* the age of a record of df: the designated age column, or the whole months
\* from origination to observation when the table has no such column
AgeAt(row) ==
    IF age_col \in df.columns THEN row[age_col]
    ELSE row[OBS_COL].month - row[ORIG_COL].month

RowIds == 1..Len(df.rows)

\* pairs of records of one entity at ages a and a + 1
ConsecutivePairs ==
    {p \in RowIds \X RowIds :
        /\ df.rows[p[1]][ID_COL] = df.rows[p[2]][ID_COL]
        /\ AgeAt(df.rows[p[2]]) = AgeAt(df.rows[p[1]]) + 1}

OneRowPerEntityAge ==
    \A i, j \in RowIds :
        (/\ df.rows[i][ID_COL] = df.rows[j][ID_COL]
         /\ AgeAt(df.rows[i]) = AgeAt(df.rows[j])) => i = j

HasRecord(l, a) ==
    \E i \in RowIds : df.rows[i][ID_COL] = l /\ AgeAt(df.rows[i]) = a

SumOfAllCells(d) == RSum([a \in DOMAIN d |-> TotalSum(d[a])], DOMAIN d)

TransitionsReturned == fn = "compute_empirical_transitions" /\ raised = "none"

\* C1: every pair of records of one entity at ages a and a+1 is one count
\* unit in bucket a, at row = state at age a and column = state at age a+1,
\* and the returned matrices hold nothing else.
C1_TransitionInBucketOfFromAge ==
    TransitionsReturned =>
        /\ DOMAIN ret_dict = {AgeAt(df.rows[p[1]]) : p \in ConsecutivePairs}
        /\ \A a \in DOMAIN ret_dict : \A r \in States, c \in States :
              CellOrZero(ret_dict[a], r, c) =
                 Rat(Cardinality({p \in ConsecutivePairs :
                        /\ AgeAt(df.rows[p[1]]) = a
                        /\ df.rows[p[1]][STATE_COL] = r
                        /\ df.rows[p[2]][STATE_COL] = c}), 1)

\* C2: with one row per (entity, age), the cells of all returned matrices
\* sum to the number of (entity, a) with records at both a and a+1, and a
\* nonzero cell comes from two records of one entity one age apart.
C2_OnlySameEntityConsecutiveAges ==
    (TransitionsReturned /\ OneRowPerEntityAge) =>
        /\ SumOfAllCells(ret_dict) =
              Rat(Cardinality({k \in Loans \X {AgeAt(df.rows[i]) : i \in RowIds} :
                                  HasRecord(k[1], k[2]) /\ HasRecord(k[1], k[2] + 1)}), 1)
        /\ \A a \in DOMAIN ret_dict : \A r \in ret_dict[a].index, c \in ret_dict[a].columns :
              ret_dict[a].cell[<<r, c>>] # Zero =>
                 \E p \in ConsecutivePairs :
                    {df.rows[p[1]][STATE_COL], df.rows[p[2]][STATE_COL]} = {r, c}

\* loan 1 is seen at ages 0 and 2 only and loan 2 at age 1 only: ages 0, 1
\* and 2 all occur, yet no entity has two consecutive ages
C2_Witness ==
    /\ TransitionsReturned /\ OneRowPerEntityAge
    /\ HasRecord(1, 0) /\ ~ HasRecord(1, 1) /\ HasRecord(1, 2)
    /\ HasRecord(2, 1) /\ ~ HasRecord(2, 0) /\ ~ HasRecord(2, 2)
    /\ SumOfAllCells(ret_dict) = Zero

PivotReturned == fn = "build_vintage_pivot" /\ raised = "none"

\* the records of df with a given (vintage, age) and state
RecordsAt(vintage, age, state) ==
    {i \in RowIds : /\ df.rows[i][ORIG_COL] = vintage
                    /\ AgeAt(df.rows[i]) = age
                    /\ df.rows[i][STATE_COL] = state}

Balances == [i \in RowIds |-> df.rows[i][VALUE_COL]]

\* C3: the pivot's cells sum to the sum of the value field over all input
\* rows; each cell is the sum over exactly the records of its key, 0 if none.
C3_PivotConservesValue ==
    PivotReturned =>
        /\ TotalSum(ret_df) = Rat(SumOver(Balances, RowIds), 1)
        /\ \A r \in ret_df.index, c \in ret_df.columns :
              ret_df.cell[<<r, c>>] =
                 Rat(SumOver(Balances, RecordsAt(r[1], r[2], c)), 1)

\* two records share one (vintage, age, state); another combination is absent
C3_Witness ==
    /\ PivotReturned
    /\ \E r \in ret_df.index, c \in ret_df.columns :
          Cardinality(RecordsAt(r[1], r[2], c)) >= 2
    /\ \E r \in ret_df.index, c \in ret_df.columns :
          RecordsAt(r[1], r[2], c) = {} /\ ret_df.cell[<<r, c>>] = Zero

\* C4: on non-negative cells row_normalize keeps the labels, divides each row
\* of nonzero sum by its sum (so it sums to 1) and makes a zero-sum row zero.
C4_RowNormalize ==
    (fn = "row_normalize" /\ NonNegative(tbl)) =>
        /\ ret_df.index = tbl.index /\ ret_df.columns = tbl.columns
        /\ \A r \in tbl.index :
              IF RowSum(tbl, r) # Zero
              THEN /\ \A c \in tbl.columns :
                         ret_df.cell[<<r, c>>] = RDiv(tbl.cell[<<r, c>>], RowSum(tbl, r))
                   /\ RowSum(ret_df, r) = One
              ELSE RowIsZero(ret_df, r)

\* a row [1, 2] becomes [1/3, 2/3] next to a zero row that stays zero
C4_Witness ==
    /\ fn = "row_normalize" /\ NonNegative(tbl)
    /\ tbl.columns = States
    /\ \E r \in tbl.index : RowSum(tbl, r) = Rat(3, 1) /\ ret_df.cell[<<r, "A">>] = Rat(1, 3)
    /\ \E r \in tbl.index : RowSum(tbl, r) = Zero /\ RowIsZero(ret_df, r)

ShrinkReturned == fn = "shrink_toward_pool"

\* observations of row r at one age, and pooled over all ages
PerAgeRowCount(a, r) ==
    RSum([c \in States |-> CellOrZero(age_tables[a], r, c)], States)

PooledCount(r, c) ==
    RSum([a \in DOMAIN age_tables |-> CellOrZero(age_tables[a], r, c)], DOMAIN age_tables)

PooledRowCount(r) == RSum([c \in States |-> PooledCount(r, c)], States)

PerAgeProb(a, r, c) ==
    IF PerAgeRowCount(a, r) = Zero THEN Zero
    ELSE RDiv(CellOrZero(age_tables[a], r, c), PerAgeRowCount(a, r))

PooledProb(r, c) ==
    IF PooledRowCount(r) = Zero THEN Zero
    ELSE RDiv(PooledCount(r, c), PooledRowCount(r))

\* C5: an output row sums to w when its per-age counts are all zero and its
\* pooled counts are not, to 1 when its per-age counts are not all zero, and
\* to 0 when its pooled counts are all zero.
C5_ShrinkRowSums ==
    ShrinkReturned =>
        \A a \in DOMAIN ret_dict : \A r \in ret_dict[a].index :
            /\ (PerAgeRowCount(a, r) = Zero /\ PooledRowCount(r) # Zero)
                  => RowSum(ret_dict[a], r) = scalar
            /\ PerAgeRowCount(a, r) # Zero => RowSum(ret_dict[a], r) = One
            /\ PooledRowCount(r) = Zero => RowSum(ret_dict[a], r) = Zero

\* with w = 1/4, a row unobserved at one age and observed at another sums to 1/4
C5_Witness ==
    /\ ShrinkReturned /\ scalar = Rat(1, 4)
    /\ \E a \in DOMAIN ret_dict : \E r \in ret_dict[a].index :
          /\ PerAgeRowCount(a, r) = Zero /\ PooledRowCount(r) # Zero
          /\ RowSum(ret_dict[a], r) = Rat(1, 4)

\* C6: with w = 0 each age's matrix is its own row-normalised counts on the
\* union of labels; with w = 1 every age's matrix is the row-normalised
\* pooled counts, the same for all ages.
C6_ShrinkBoundaryWeights ==
    ShrinkReturned =>
        /\ scalar = Zero =>
              \A a \in DOMAIN ret_dict :
                 /\ ret_dict[a].index = AllStates(age_tables)
                 /\ ret_dict[a].columns = AllStates(age_tables)
                 /\ \A r \in ret_dict[a].index, c \in ret_dict[a].columns :
                       ret_dict[a].cell[<<r, c>>] = PerAgeProb(a, r, c)
        /\ scalar = One =>
              /\ \A a \in DOMAIN ret_dict :
                    /\ ret_dict[a].index = AllStates(age_tables)
                    /\ ret_dict[a].columns = AllStates(age_tables)
                    /\ \A r \in ret_dict[a].index, c \in ret_dict[a].columns :
                          ret_dict[a].cell[<<r, c>>] = PooledProb(r, c)
              /\ \A a, b \in DOMAIN ret_dict : ret_dict[a] = ret_dict[b]

\* w = 1 over two ages whose own probabilities differ from the pooled ones
C6_Witness ==
    /\ ShrinkReturned /\ scalar = One
    /\ DOMAIN ret_dict = {0, 1}
    /\ \E r \in States, c \in States :
          /\ PerAgeRowCount(0, r) # Zero /\ PerAgeRowCount(1, r) # Zero
          /\ PerAgeProb(0, r, c) # PerAgeProb(1, r, c)
          /\ PerAgeProb(0, r, c) # PooledProb(r, c)
          /\ ret_dict[0].cell[<<r, c>>] = PooledProb(r, c)

\* C7 as stated: with w < 1, the output row of a row with no observation at
\* that age is the pooled probability row itself.
C7_ZeroRowIsPooledRow ==
    (ShrinkReturned /\ RLess(scalar, One)) =>
        \A a \in DOMAIN ret_dict : \A r \in ret_dict[a].index :
            PerAgeRowCount(a, r) = Zero =>
               \A c \in ret_dict[a].columns :
                  ret_dict[a].cell[<<r, c>>] = PooledProb(r, c)

\* C7 amended: with w < 1, the output row of a row with no observation at
\* that age is w times the pooled probability row.
C7_ZeroRowIsWeightedPooledRow ==
    (ShrinkReturned /\ RLess(scalar, One)) =>
        \A a \in DOMAIN ret_dict : \A r \in ret_dict[a].index :
            PerAgeRowCount(a, r) = Zero =>
               \A c \in ret_dict[a].columns :
                  ret_dict[a].cell[<<r, c>>] = RMul(scalar, PooledProb(r, c))

\* w = 1/4: the unobserved row differs from the pooled row, which is not zero
C7_Witness ==
    /\ ShrinkReturned /\ scalar = Rat(1, 4)
    /\ \E a \in DOMAIN ret_dict : \E r \in ret_dict[a].index, c \in ret_dict[a].columns :
          /\ PerAgeRowCount(a, r) = Zero
          /\ PooledProb(r, c) # Zero
          /\ ret_dict[a].cell[<<r, c>>] # PooledProb(r, c)

\* C8: on non-negative counts with a column and alpha > 0 every cell is
\* (count + alpha) / (row sum + alpha * columns), positive, and every row sums
\* to 1 (the example gives 9/12, 3/12, 2/12, 10/12); with alpha = 0 the
\* result is row_normalize of the counts.
C8_LaplaceSmoothing ==
    (fn = "laplace_smoothing" /\ NonNegative(tbl)) =>
        /\ (tbl.columns # {} /\ RLess(Zero, scalar)) =>
              \A r \in tbl.index :
                 /\ \A c \in tbl.columns :
                       /\ ret_df.cell[<<r, c>>] =
                             RDiv(RAdd(tbl.cell[<<r, c>>], scalar),
                                  RAdd(RowSum(tbl, r),
                                       RMul(scalar, Rat(Cardinality(tbl.columns), 1))))
                       /\ RLess(Zero, ret_df.cell[<<r, c>>])
                 /\ RowSum(ret_df, r) = One
        /\ (tbl = ExampleCounts /\ scalar = One) =>
              /\ ret_df.cell[<<"A", "A">>] = Rat(9, 12)
              /\ ret_df.cell[<<"A", "B">>] = Rat(3, 12)
              /\ ret_df.cell[<<"B", "A">>] = Rat(2, 12)
              /\ ret_df.cell[<<"B", "B">>] = Rat(10, 12)
        /\ scalar = Zero => ret_df = row_normalize(tbl)

\* alpha = 1/2 on a matrix with a zero-count row: the row becomes uniform
C8_Witness ==
    /\ fn = "laplace_smoothing" /\ NonNegative(tbl) /\ scalar = Half
    /\ tbl.columns = States
    /\ \E r \in tbl.index :
          /\ RowSum(tbl, r) = Zero
          /\ \A c \in tbl.columns : ret_df.cell[<<r, c>>] = Half
    /\ \E r \in tbl.index : RowSum(tbl, r) # Zero

\* the table with the age column age_col already filled in
Precomputed ==
    WithColumn(df, age_col,
               [i \in RowIds |-> df.rows[i][OBS_COL].month - df.rows[i][ORIG_COL].month])

\* C9: a table without the designated age column is not an error: the age is
\* derived and the result is that of the table with the column precomputed.
C9_MissingAgeColumnRecovered ==
    /\ (fn = "build_vintage_pivot" /\ age_col \notin df.columns) =>
          /\ raised = "none"
          /\ ret_df = build_vintage_pivot(Precomputed, ORIG_COL, age_col).value
    /\ (fn = "compute_empirical_transitions" /\ age_col \notin df.columns) =>
          /\ raised = "none"
          /\ ret_dict = compute_empirical_transitions(Precomputed, age_col).value

\* C10: the result has no negative cell; every row sums to 1 or is all zero;
\* a row with no positive cell becomes zero; a row of sum strictly between 0
\* and 1 (a shrinkage row summing to w) is rescaled to sum to 1.
C10_EnsureProbabilityMatrix ==
    fn = "ensure_probability_matrix" =>
        /\ ret_df.index = tbl.index /\ ret_df.columns = tbl.columns
        /\ NonNegative(ret_df)
        /\ \A r \in tbl.index :
              /\ RowSum(ret_df, r) = One \/ RowIsZero(ret_df, r)
              /\ (\A c \in tbl.columns : ~ RLess(Zero, tbl.cell[<<r, c>>]))
                    => RowIsZero(ret_df, r)
              /\ (/\ \A c \in tbl.columns : ~ RLess(tbl.cell[<<r, c>>], Zero)
                  /\ RLess(Zero, RowSum(tbl, r)) /\ RLess(RowSum(tbl, r), One))
                    => RowSum(ret_df, r) = One

\* a shrinkage row that sums to 1/4 comes out summing to 1
C10_Witness ==
    /\ fn = "ensure_probability_matrix"
    /\ \E r \in tbl.index :
          RowSum(tbl, r) = Rat(1, 4) /\ RowSum(ret_df, r) = One

====
